---------------------------- MODULE Spec2Model ----------------------------
(***************************************************************************)
(* A model of otterpack (CraigChat/otterpack):                             *)
(*   src/src/self_extract.rs  find_pack_source, extract_zip_contents,      *)
(*                            setup_resources                              *)
(*   src/src/process.rs       process_files                                *)
(*   src/src/app.rs           TemplateApp (default, update, the run task)  *)
(*                                                                         *)
(* Specifications:                                                         *)
(*   SpecLocate   find_pack_source applied to bounded containers           *)
(*   SpecExtract  extract_zip_contents applied to bounded archives         *)
(*   SpecFilter   the mix filter graph of process_files, for 1..MaxInputs  *)
(*   Spec         the application: UI frames interleaved with the run task *)
(*   SpecProcess  process_files called on bounded arguments                *)
(*   FairSpec     Spec under the scheduling of the task and of the frames  *)
(***************************************************************************)
EXTENDS Integers, Sequences, FiniteSets, TLC

VARIABLES
    \* ---- the environment of find_pack_source (self_extract.rs:19-71)
    exe,                \* bytes of the running executable, exe[i] is offset i-1
    debug_assertions,   \* cfg!(debug_assertions): development mode
    debug_folder,       \* does ./_otterpack exist as a directory
    overflow_checks,    \* is u64 arithmetic overflow checked in this build
    locResult,          \* result of find_pack_source, NoResult before the call
    \* ---- extract_zip_contents (self_extract.rs:73-123)
    windows,            \* target_os = "windows": decides Path::join on "c:name"
    archive,            \* entry names of the embedded archive, in index order
    ioFail,             \* the I/O failure injected into the extraction, if any
    exResult,           \* result of extract_zip_contents, NoResult before
    \* ---- the mix filter graph (process.rs:119-152)
    nInputs,            \* flac_files.len()
    use_dynaudnorm,     \* the dynaudnorm checkbox
    mixpc,              \* "idle", "loop" (building), "built"
    mixi,               \* the loop index i
    cmd_inputs,         \* the "-i" arguments of the command, as input indices
    filter,             \* the stages pushed to `filter` so far
    mix_filter,         \* the labels pushed to `mix_filter` so far
    co,                 \* the counter `co`
    map,                \* the label given to -map, <<>> before
    \* ---- TemplateApp (app.rs:21-31)
    status,             \* AppStatus; "Starting" before default(), "Crashed"
    source,             \* Option<PackSource>: NoResult is None
    progress_rx,        \* is progress_rx Some
    progress_info,      \* Option<ProgressInfo>: NoResult is None
    selected_format,    \* AudioFormat
    mix,                \* the mix checkbox
    \* ---- the run task (app.rs:155-181) and process_files (process.rs:73-234)
    pc,                 \* the task's position, "none" before it is spawned
    resources,          \* ExtractedResources of the run, NoResult before
    result,             \* the Err the task is about to report, NoResult if none
    flac_files,         \* flac_files, in enumeration order
    current_index,      \* the per-file loop's current_index
    result_files,       \* result_files
    \* ---- the file system
    dev_files,          \* the names directly under ./_otterpack
    temp_state,         \* the temporary directory: "none", "exists", "removed"
    temp_files,         \* the names directly under the temporary directory
    out_dirs,           \* the output directories that exist
    out_files,          \* the audio files written under the output root
    manifest,           \* craig.aup under the output root, NoResult if absent
    \* ---- history
    log,                \* the task's sends, spawns and exits, in order
    rx_count,           \* how many sent events the UI has received
    running,            \* external processes running now
    find_calls,         \* calls of find_pack_source so far
    extract_calls,      \* calls of extract_zip_contents so far
    tasks_spawned       \* run tasks spawned so far

locVars == <<exe, debug_assertions, debug_folder, overflow_checks, locResult>>
exVars == <<windows, archive, ioFail, exResult>>
mixVars == <<nInputs, use_dynaudnorm, mixpc, mixi, cmd_inputs, filter, mix_filter, co, map>>
uiVars == <<status, source, progress_rx, progress_info, selected_format, mix>>
taskVars == <<pc, resources, result, flac_files, current_index, result_files>>
fsVars == <<dev_files, temp_state, temp_files, out_dirs, out_files, manifest>>
histVars == <<log, rx_count, running, find_calls, extract_calls, tasks_spawned>>
appVars == <<uiVars, taskVars, fsVars, histVars>>
vars == <<locVars, exVars, mixVars, appVars>>

NoResult == [kind |-> "None"]

Min(a, b) == IF a < b THEN a ELSE b

(***************************************************************************)
(* find_pack_source                                  self_extract.rs:16-71 *)
(***************************************************************************)

\* const ZIP_MAGIC: &[u8] = b"PK\x03\x04"
ZIP_MAGIC == <<80, 75, 3, 4>>

\* const MAX_SEARCH_SIZE: u64 = 10 * 1024 * 1024.  The window is scaled down
\* to a few bytes so that containers shorter than, equal to and longer than
\* the window can all be enumerated; every comparison below is the source's.
MAX_SEARCH_SIZE == 6

\* The longest container enumerated; long enough for a whole signature to
\* lie beyond the window.
MaxExeLen == 11

\* u64 arithmetic wraps modulo 2^64 when overflow is not checked.  TLC's
\* integers are 32 bits wide, so the modulus is stood in for by 2^30: all
\* that matters below is that a wrapped difference exceeds every offset.
U64_MODULUS == 2^30

\* `search_size - ZIP_MAGIC.len() as u64` (line 43): a u64 subtraction.  With
\* overflow checks (the default of a debug build) an underflow panics, without
\* them (the default of a release build) it wraps.
ScanLimit(search_size, checked) ==
    IF search_size >= Len(ZIP_MAGIC)
    THEN [kind |-> "Ok", limit |-> search_size - Len(ZIP_MAGIC)]
    ELSE IF checked
         THEN [kind |-> "Panic", limit |-> 0]
         ELSE [kind |-> "Ok",
               limit |-> (search_size - Len(ZIP_MAGIC)) + U64_MODULUS]

\* The while loop of lines 43-60, from position pos.  hi is the highest byte
\* offset read so far (-1: none).  seek + read_exact of 4 bytes at pos fails
\* with UnexpectedEof when fewer than 4 bytes remain (having read up to EOF).
RECURSIVE Scan(_, _, _, _)
Scan(bytes, pos, limit, hi) ==
    IF pos < limit
    THEN IF pos + Len(ZIP_MAGIC) > Len(bytes)
         THEN [kind |-> "Err", msg |-> "Io", zip_start |-> 0, zip_size |-> 0,
               hi |-> IF Len(bytes) - 1 > hi /\ pos < Len(bytes)
                      THEN Len(bytes) - 1 ELSE hi]
         ELSE IF SubSeq(bytes, pos + 1, pos + Len(ZIP_MAGIC)) = ZIP_MAGIC
              THEN [kind |-> "EmbeddedZip", msg |-> "",
                    zip_start |-> pos, zip_size |-> Len(bytes) - pos,
                    hi |-> pos + Len(ZIP_MAGIC) - 1]
              ELSE Scan(bytes, pos + 1, limit, pos + Len(ZIP_MAGIC) - 1)
    ELSE [kind |-> "NotFound", msg |-> "", zip_start |-> 0, zip_size |-> 0,
          hi |-> hi]

\* A build that gives the two messages the wrong way round.
NotFoundMsg_Swapped(dbg) == IF dbg THEN "ReleaseMsg" ELSE "DebugMsg"

\* The error after the loop (lines 62-70).
NotFoundMsg(dbg) == IF dbg THEN "DebugMsg" ELSE "ReleaseMsg"

\* find_pack_source (lines 19-71) on a container, a build and a working
\* directory.  The executable itself is taken to be openable and readable.
FindPackSource(bytes, dbg, folder, checked) ==
    IF dbg /\ folder
    THEN [kind |-> "DebugFolder", msg |-> "", zip_start |-> 0, zip_size |-> 0,
          hi |-> -1]
    ELSE LET file_size == Len(bytes)
             search_size == Min(file_size, MAX_SEARCH_SIZE)
             lim == ScanLimit(search_size, checked)
         IN  IF lim.kind = "Panic"
             THEN [kind |-> "Panic", msg |-> "", zip_start |-> 0,
                   zip_size |-> 0, hi |-> -1]
             ELSE LET r == Scan(bytes, 0, lim.limit, -1)
                  IN  IF r.kind = "NotFound"
                      THEN [r EXCEPT !.kind = "Err", !.msg = NotFoundMsg(dbg)]
                      ELSE r

\* ---- bounded containers ------------------------------------------------
\* A container of length n: filler bytes everywhere, except that the bytes of
\* ZIP_MAGIC are laid at each offset of sigs (cut off at the end of the file).
Container(n, sigs, filler) ==
    [i \in 1..n |->
        IF \E p \in sigs : p <= i - 1 /\ i - 1 < p + Len(ZIP_MAGIC)
        THEN LET p == CHOOSE q \in sigs : q <= i - 1 /\ i - 1 < q + Len(ZIP_MAGIC)
             IN  ZIP_MAGIC[i - p]
        ELSE filler]

\* Placements of at most two signatures that do not overlap.
SigPlacements(n) ==
    { s \in SUBSET (0..(n - 1)) :
        /\ Cardinality(s) <= 2
        /\ \A p, q \in s : p # q => (p - q >= Len(ZIP_MAGIC) \/ q - p >= Len(ZIP_MAGIC)) }

\* Fillers: a byte foreign to the signature, and the signature's first byte.
Fillers == {0, 80}

Containers ==
    UNION { { Container(n, s, f) : s \in SigPlacements(n), f \in Fillers }
            : n \in 0..MaxExeLen }

\* Does the signature occur at offset p of the container.
SigAt(bytes, p) ==
    /\ p >= 0
    /\ p + Len(ZIP_MAGIC) <= Len(bytes)
    /\ SubSeq(bytes, p + 1, p + Len(ZIP_MAGIC)) = ZIP_MAGIC

LocInit ==
    /\ exe \in Containers
    /\ debug_assertions \in BOOLEAN
    /\ debug_folder \in BOOLEAN
    /\ overflow_checks \in BOOLEAN
    /\ locResult = NoResult

LocIdle ==
    /\ exe = <<>> /\ debug_assertions = FALSE /\ debug_folder = FALSE
    /\ overflow_checks = FALSE /\ locResult = NoResult

\* One call of find_pack_source.
Locate ==
    /\ locResult = NoResult
    /\ locResult' = FindPackSource(exe, debug_assertions, debug_folder, overflow_checks)
    /\ UNCHANGED <<exe, debug_assertions, debug_folder, overflow_checks>>

\* The application before TemplateApp::default has run, with nothing on disk.
AppIdle ==
    /\ status = "Starting" /\ source = NoResult /\ progress_rx = FALSE
    /\ progress_info = NoResult /\ selected_format = "FLAC" /\ mix = FALSE
    /\ pc = "none" /\ resources = NoResult /\ result = NoResult
    /\ flac_files = <<>> /\ current_index = 0 /\ result_files = <<>>
    /\ dev_files = {} /\ temp_state = "none" /\ temp_files = {}
    /\ out_dirs = {} /\ out_files = {} /\ manifest = NoResult
    /\ log = <<>> /\ rx_count = 0 /\ running = 0
    /\ find_calls = 0 /\ extract_calls = 0 /\ tasks_spawned = 0

ExIdle ==
    /\ windows = FALSE /\ archive = <<>> /\ ioFail = [kind |-> "none", at |-> 0]
    /\ exResult = NoResult

MixIdle ==
    /\ nInputs = 0 /\ use_dynaudnorm = FALSE /\ mixpc = "idle" /\ mixi = 0
    /\ cmd_inputs = <<>> /\ filter = <<>> /\ mix_filter = <<>> /\ co = 0
    /\ map = <<>>

InitLocate == LocInit /\ ExIdle /\ MixIdle /\ AppIdle

NextLocate == Locate /\ UNCHANGED <<exVars, mixVars, appVars>>

SpecLocate == InitLocate /\ [][NextLocate]_vars

(***************************************************************************)
(* extract_zip_contents                             self_extract.rs:73-123 *)
(*                                                                         *)
(* A file name is the sequence of its pieces, separators and dots being    *)
(* pieces of their own: "dir/b.flac" is <<"dir", "/", "b", ".", "flac">>.  *)
(* A path is [base, name]: the directory it lies in and its name there.    *)
(***************************************************************************)

\* The most entries an enumerated archive holds.
MaxEntries == 3

FFMPEG_EXE == <<"ffmpeg", ".", "exe">>

\* Entry names: flat files, a directory, nested entries with either
\* separator, a name with a drive prefix, and the parent directory.
EntryNames ==
    { FFMPEG_EXE,
      <<"a", ".", "flac">>,
      <<"dir", "/">>,
      <<"dir", "/", "b", ".", "flac">>,
      <<"dir", "\\", "b">>,
      <<"c", ":", "evil">>,
      <<".", ".">> }

Archives == UNION { [1..n -> EntryNames] : n \in 0..MaxEntries }

Contains(name, piece) == \E k \in 1..Len(name) : name[k] = piece

\* name.ends_with('/') || name.contains('/') || name.contains('\\')  (line 103)
Skipped(name) ==
    \/ (Len(name) > 0 /\ name[Len(name)] = "/")
    \/ Contains(name, "/")
    \/ Contains(name, "\\")

DriveLetters == {"a", "b", "c"}

\* std::path: on Windows a path that starts with a drive prefix ("c:") has a
\* prefix; nowhere else.
HasPrefix(name, win) ==
    win /\ Len(name) >= 2 /\ name[1] \in DriveLetters /\ name[2] = ":"

\* temp_dir.path().join(name) (line 108).  Path::join replaces the base when
\* the joined path has a prefix (Windows, "c:evil"); the entries that reach
\* the call hold no separator, so otherwise it is the child of that name.
Join(base, name, win) ==
    IF HasPrefix(name, win)
    THEN [base |-> "drive-cwd", name |-> name]
    ELSE [base |-> base, name |-> name]

\* File::create (line 111) fails on a path that names a directory.
NamesDirectory(name) == name = <<".">> \/ name = <<".", ".">> \/ name = <<>>

\* Where an I/O failure is injected: nowhere; ZipArchive::new (line 92);
\* tempdir() (line 95); by_index, File::create or io::copy of entry `at`.
FailurePoints(arch) ==
    { [kind |-> "none", at |-> 0], [kind |-> "parse", at |-> 0],
      [kind |-> "tempdir", at |-> 0] }
    \cup { [kind |-> k, at |-> i] : k \in {"by_index", "create", "copy"},
                                     i \in 1..Len(arch) }

\* An error return that leaves the temporary directory and its files behind.
ExErr_KeepsDir(what, i, written) ==
    [kind |-> "Err", err |-> what, at |-> i, temp_dir |-> what \notin {"parse", "tempdir"},
     files |-> written]

ExErr(what, i, written) ==
    [kind |-> "Err", err |-> what, at |-> i, temp_dir |-> FALSE,
     files |-> { q \in written : q.base # "temp" }]

\* The loop of lines 98-115 from entry i on; written is the set of paths
\* created so far.  An error return drops temp_dir, which removes the
\* directory and what lies in it (and nothing else).
RECURSIVE ExtractLoop(_, _, _, _, _)
ExtractLoop(i, arch, win, fail, written) ==
    IF i > Len(arch)
    THEN [kind |-> "Ok", err |-> "", at |-> 0, temp_dir |-> TRUE, files |-> written]
    ELSE IF fail.kind = "by_index" /\ fail.at = i
    THEN ExErr("by_index", i, written)
    ELSE IF Skipped(arch[i])
    THEN ExtractLoop(i + 1, arch, win, fail, written)
    ELSE LET out_path == Join("temp", arch[i], win)
         IN  IF NamesDirectory(arch[i]) \/ (fail.kind = "create" /\ fail.at = i)
             THEN ExErr("create", i, written)
             ELSE IF fail.kind = "copy" /\ fail.at = i
             THEN ExErr("copy", i, written \cup {out_path})
             ELSE ExtractLoop(i + 1, arch, win, fail, written \cup {out_path})

\* extract_zip_contents (lines 73-123) on a located source.
ExtractZipContents(src, arch, win, fail) ==
    IF src.kind = "DebugFolder"
    THEN ExErr("debug folder", 0, {})
    ELSE IF fail.kind = "parse" THEN ExErr("parse", 0, {})
    ELSE IF fail.kind = "tempdir" THEN ExErr("tempdir", 0, {})
    ELSE ExtractLoop(1, arch, win, fail, {})

EmbeddedSource ==
    [kind |-> "EmbeddedZip", msg |-> "", zip_start |-> 0, zip_size |-> 0, hi |-> -1]

ExInit ==
    /\ windows \in BOOLEAN
    /\ archive \in Archives
    /\ ioFail \in FailurePoints(archive)
    /\ exResult = NoResult

\* One call of extract_zip_contents on an embedded archive.
Extract ==
    /\ exResult = NoResult
    /\ exResult' = ExtractZipContents(EmbeddedSource, archive, windows, ioFail)
    /\ UNCHANGED <<windows, archive, ioFail>>

InitExtract == LocIdle /\ ExInit /\ MixIdle /\ AppIdle

NextExtract == Extract /\ UNCHANGED <<locVars, mixVars, appVars>>

SpecExtract == InitExtract /\ [][NextExtract]_vars

(***************************************************************************)
(* The mix filter graph of process_files                process.rs:119-152 *)
(*                                                                         *)
(* The filter string is kept as the sequence of its ';'-separated stages:  *)
(*   "[{i}:a]{input_filter}[aud{co}]"   [kind "input", src i, f, out]      *)
(*   "{mix_filter} amix={co}{mix_extra}[aud..]"                            *)
(*                                      [kind "amix", ins, count, extra,   *)
(*                                       out]                              *)
(* A label "[aud{co}]" is <<"aud", co>>, the label "[aud]" is <<"aud">>.   *)
(***************************************************************************)

\* `if co >= 32` (line 143): amix can only mix 32 at a time.
AMIX_MAX == 32

\* The largest number of mixed inputs enumerated: four amix stages.
MaxInputs == 96

AudLabel(c) == <<"aud", c>>

AudOut == <<"aud">>

\* let mix_extra = if use_dynaudnorm { ",dynaudnorm" } else { "" }  (line 128)
MixExtra(dyn) == IF dyn THEN ",dynaudnorm" ELSE ""

\* let input_filter = if use_dynaudnorm { "dynaudnorm" } else { "anull" }
InputFilter(dyn) == IF dyn THEN "dynaudnorm" ELSE "anull"

InputStage(i, dyn, c) ==
    [kind |-> "input", src |-> i, f |-> InputFilter(dyn), ins |-> <<>>,
     count |-> 0, extra |-> "", out |-> AudLabel(c)]

AmixStage(labels, c, dyn, out) ==
    [kind |-> "amix", src |-> -1, f |-> "amix", ins |-> labels,
     count |-> c, extra |-> MixExtra(dyn), out |-> out]

\* A chunk that closes one input late.
ChunkFull_Late(c) == c > AMIX_MAX

\* `if co >= 32` (line 143)
ChunkFull(c) == c >= AMIX_MAX

\* Lines 120-127: the empty filter strings, the command and the counter.
MixInit ==
    /\ nInputs \in 1..MaxInputs
    /\ use_dynaudnorm \in BOOLEAN
    /\ mixpc = "loop"
    /\ mixi = 0
    /\ cmd_inputs = <<>>
    /\ filter = <<>>
    /\ mix_filter = <<>>
    /\ co = 0
    /\ map = <<>>

\* One iteration of `for (i, file) in flac_files.iter().enumerate()` (lines
\* 129-148): the "-i" argument, the per-input stage, and the amix stage that
\* closes a full chunk.
MixIter ==
    /\ mixpc = "loop"
    /\ mixi < nInputs
    /\ cmd_inputs' = Append(cmd_inputs, mixi)
    /\ LET filter1 == Append(filter, InputStage(mixi, use_dynaudnorm, co))
           mix_filter1 == Append(mix_filter, AudLabel(co))
           co1 == co + 1
       IN  IF ChunkFull(co1)
           THEN /\ filter' = Append(filter1,
                                AmixStage(mix_filter1, co1, use_dynaudnorm, AudLabel(co1)))
                /\ mix_filter' = <<AudLabel(co1)>>
                /\ co' = 1
           ELSE /\ filter' = filter1
                /\ mix_filter' = mix_filter1
                /\ co' = co1
    /\ mixi' = mixi + 1
    /\ UNCHANGED <<nInputs, use_dynaudnorm, mixpc, map>>

\* Lines 150-152: the final amix stage and `-map [aud]`.
MixFinish ==
    /\ mixpc = "loop"
    /\ mixi >= nInputs
    /\ filter' = Append(filter, AmixStage(mix_filter, co, use_dynaudnorm, AudOut))
    /\ map' = AudOut
    /\ mixpc' = "built"
    /\ UNCHANGED <<nInputs, use_dynaudnorm, mixi, cmd_inputs, mix_filter, co>>

InitFilter == LocIdle /\ ExIdle /\ MixInit /\ AppIdle

NextFilter == (MixIter \/ MixFinish) /\ UNCHANGED <<locVars, exVars, appVars>>

SpecFilter == InitFilter /\ [][NextFilter]_vars

(***************************************************************************)
(* AudioFormat                                            process.rs:8-49  *)
(***************************************************************************)

AudioFormats == {"FLAC", "Audacity", "WAV", "AAC", "ALAC"}

\* AudioFormat::extension (lines 18-25)
Extension(format) ==
    CASE format \in {"FLAC", "Audacity"} -> "flac"
      [] format = "WAV" -> "wav"
      [] format \in {"AAC", "ALAC"} -> "m4a"

\* AudioFormat::ffmpeg_args (lines 27-34)
FfmpegArgs(format) ==
    CASE format \in {"FLAC", "Audacity"} -> <<"-c:a", "flac", "-f", "flac">>
      [] format = "WAV" -> <<"-c:a", "pcm_s16le", "-f", "wav">>
      [] format = "AAC" -> <<"-c:a", "aac", "-f", "ipod">>
      [] format = "ALAC" -> <<"-c:a", "alac", "-f", "ipod">>

\* AudioFormat::is_project_format (lines 46-48)
IsProjectFormat(format) == format = "Audacity"

\* pub static AUP_FOLDER_NAME: &str = "craig_data"  (line 71)
AUP_FOLDER_NAME == "craig_data"

(***************************************************************************)
(* Paths and names                                                         *)
(***************************************************************************)

\* The position of the last "." of a name, 0 if it has none.
LastDot(name) ==
    IF Contains(name, ".")
    THEN CHOOSE k \in 1..Len(name) :
            name[k] = "." /\ \A j \in (k + 1)..Len(name) : name[j] # "."
    ELSE 0

\* Path::extension: what follows the last dot of the file name, unless the
\* name has no dot or only a leading one (<<>>: None).
PathExtension(name) ==
    IF LastDot(name) > 1 THEN SubSeq(name, LastDot(name) + 1, Len(name)) ELSE <<>>

\* PathBuf::set_extension: the stem, a dot and the new extension.
SetExtension(name, ext) ==
    IF LastDot(name) > 1
    THEN SubSeq(name, 1, LastDot(name) - 1) \o <<".", ext>>
    ELSE name \o <<".", ext>>

\* root_output_path, and output_path with AUP_FOLDER_NAME pushed (lines 81-84)
RootOutputPath == <<"out">>

\* The audio files written beside the manifest, with no data subfolder.
OutputPath_NoSubfolder(format) == RootOutputPath

OutputPath(format) ==
    IF IsProjectFormat(format) THEN RootOutputPath \o <<AUP_FOLDER_NAME>>
    ELSE RootOutputPath

\* create_dir_all creates the directory and its missing parents.
WithParents(dir) == { SubSeq(dir, 1, k) : k \in 1..Len(dir) }

(***************************************************************************)
(* The environment of the application                                      *)
(***************************************************************************)

\* The most capture files a resource folder holds.
MaxFiles == 3

Tracks == <<"a", "b", "c", "d", "e">>

TrackNames(n) == { <<Tracks[k], ".", "flac">> : k \in 1..n }

TrackSeq(n) == [k \in 1..n |-> <<Tracks[k], ".", "flac">>]

\* The contents of ./_otterpack: with or without ffmpeg.exe, 0..MaxFiles tracks.
DevFolders ==
    { ff \cup TrackNames(n) : ff \in {{}, {FFMPEG_EXE}}, n \in 0..MaxFiles }

\* The bundled archives: with or without ffmpeg.exe, 0..MaxFiles tracks.
AppArchives ==
    { ff \o TrackSeq(n) : ff \in {<<>>, <<FFMPEG_EXE>>}, n \in 0..MaxFiles }

AppFailurePoints(arch) ==
    { [kind |-> "none", at |-> 0], [kind |-> "parse", at |-> 0],
      [kind |-> "tempdir", at |-> 0] }
    \cup { [kind |-> "copy", at |-> i] : i \in { j \in 1..Len(arch) : j = Len(arch) } }

\* Executables: shorter than the signature, without a signature, with one.
AppExes ==
    { Container(2, {}, 0), Container(5, {}, 0), Container(7, {1}, 0) }

\* The exit statuses of the external process.
ExitCodes == {0, 1, 2}

\* The orders read_dir may enumerate a set of names in (the order is the file
\* system's): ascending and descending.
Ascending(names) == SelectSeq(TrackSeq(Len(Tracks)), LAMBDA x : x \in names)

Reverse(sq) == [k \in 1..Len(sq) |-> sq[Len(sq) + 1 - k]]

EnumerationOrders(names) == { Ascending(names), Reverse(Ascending(names)) }

AppInit ==
    /\ status = "Starting" /\ source = NoResult /\ progress_rx = FALSE
    /\ progress_info = NoResult /\ selected_format = "FLAC" /\ mix = FALSE
    /\ pc = "none" /\ resources = NoResult /\ result = NoResult
    /\ flac_files = <<>> /\ current_index = 0 /\ result_files = <<>>
    /\ temp_state = "none" /\ temp_files = {}
    /\ out_dirs = {} /\ out_files = {} /\ manifest = NoResult
    /\ log = <<>> /\ rx_count = 0 /\ running = 0
    /\ find_calls = 0 /\ extract_calls = 0 /\ tasks_spawned = 0
    /\ locResult = NoResult /\ exResult = NoResult
    /\ MixIdle
    /\ debug_assertions \in BOOLEAN
    /\ debug_folder \in (IF debug_assertions THEN BOOLEAN ELSE {FALSE})
    /\ IF debug_assertions /\ debug_folder
       THEN /\ dev_files \in DevFolders
            /\ exe = Container(5, {}, 0)
            /\ overflow_checks = debug_assertions
            /\ archive = <<>>
            /\ ioFail = [kind |-> "none", at |-> 0]
       ELSE /\ dev_files = {}
            /\ exe \in AppExes
            /\ overflow_checks \in (IF Len(exe) < Len(ZIP_MAGIC) THEN BOOLEAN
                                    ELSE {debug_assertions})
            /\ IF \E p \in 0..Len(exe) : SigAt(exe, p)
               THEN /\ archive \in AppArchives
                    /\ ioFail \in AppFailurePoints(archive)
               ELSE /\ archive = <<>>
                    /\ ioFail = [kind |-> "none", at |-> 0]
    /\ windows = FALSE

(***************************************************************************)
(* TemplateApp                                               app.rs:33-258 *)
(***************************************************************************)

\* A constructor that leaves the status Ready when locating failed.
AppDefault_IgnoresError ==
    /\ status = "Starting"
    /\ LET r == FindPackSource(exe, debug_assertions, debug_folder, overflow_checks)
       IN  /\ find_calls' = find_calls + 1
           /\ IF r.kind = "Panic"
              THEN status' = "Crashed" /\ source' = NoResult
              ELSE IF r.kind = "Err"
              THEN status' = "Ready" /\ source' = NoResult
              ELSE status' = "Ready" /\ source' = r
    /\ UNCHANGED <<progress_rx, progress_info, selected_format, mix>>
    /\ UNCHANGED <<taskVars, fsVars, log, rx_count, running, extract_calls, tasks_spawned>>
    /\ UNCHANGED <<locVars, exVars, mixVars>>

\* TemplateApp::default (lines 33-69): the fields, then find_pack_source.  A
\* panic of find_pack_source ends the process before any frame.
AppDefault ==
    /\ status = "Starting"
    /\ LET r == FindPackSource(exe, debug_assertions, debug_folder, overflow_checks)
       IN  /\ find_calls' = find_calls + 1
           /\ IF r.kind = "Panic"
              THEN status' = "Crashed" /\ source' = NoResult
              ELSE IF r.kind = "Err"
              THEN status' = "Error" /\ source' = NoResult
              ELSE status' = "Ready" /\ source' = r
    /\ UNCHANGED <<progress_rx, progress_info, selected_format, mix>>
    /\ UNCHANGED <<taskVars, fsVars, log, rx_count, running, extract_calls, tasks_spawned>>
    /\ UNCHANGED <<locVars, exVars, mixVars>>

\* The format combo box (lines 117-127); the widgets are disabled unless the
\* status is Ready (lines 94-96).
SelectFormat ==
    /\ status = "Ready"
    /\ \E f \in AudioFormats \ {selected_format} : selected_format' = f
    /\ UNCHANGED <<status, source, progress_rx, progress_info, mix>>
    /\ UNCHANGED <<taskVars, fsVars, histVars, locVars, exVars, mixVars>>

\* The "Mix into single track" checkbox (lines 131-132).
ToggleMix ==
    /\ status = "Ready"
    /\ mix' = ~mix
    /\ UNCHANGED <<status, source, progress_rx, progress_info, selected_format>>
    /\ UNCHANGED <<taskVars, fsVars, histVars, locVars, exVars, mixVars>>

\* The "Automatically level volume" checkbox (lines 134-135).
ToggleDynaudnorm ==
    /\ status = "Ready"
    /\ use_dynaudnorm' = ~use_dynaudnorm
    /\ UNCHANGED <<nInputs, mixpc, mixi, cmd_inputs, filter, mix_filter, co, map>>
    /\ UNCHANGED <<uiVars, taskVars, fsVars, histVars, locVars, exVars>>

\* A Go button that stays clickable while a run is in progress.
ClickGo_WhileProcessing ==
    /\ status \in {"Ready", "Processing"}
    /\ progress_rx' = TRUE
    /\ status' = "Processing"
    /\ pc' = "setup"
    /\ tasks_spawned' = tasks_spawned + 1
    /\ UNCHANGED <<source, progress_info, selected_format, mix>>
    /\ UNCHANGED <<resources, result, flac_files, current_index, result_files>>
    /\ UNCHANGED <<fsVars, log, rx_count, running, find_calls, extract_calls>>
    /\ UNCHANGED <<locVars, exVars, mixVars>>

\* The Go button (lines 140-182): the channel, the status, and the spawned
\* task, which starts at setup_resources.
ClickGo ==
    /\ status = "Ready"
    /\ progress_rx' = TRUE
    /\ status' = "Processing"
    /\ pc' = "setup"
    /\ tasks_spawned' = tasks_spawned + 1
    /\ UNCHANGED <<source, progress_info, selected_format, mix>>
    /\ UNCHANGED <<resources, result, flac_files, current_index, result_files>>
    /\ UNCHANGED <<fsVars, log, rx_count, running, find_calls, extract_calls>>
    /\ UNCHANGED <<locVars, exVars, mixVars>>

\* The events sent so far, and those not yet received.
Sent == [k \in 1..Len(SelectSeq(log, LAMBDA e : e.op = "send")) |->
            SelectSeq(log, LAMBDA e : e.op = "send")[k].ev]

\* A frame that takes the Finished event and leaves the status as it is.
UiPoll_IgnoresFinished ==
    /\ status = "Processing"
    /\ progress_rx
    /\ rx_count < Len(Sent)
    /\ LET progress == Sent[rx_count + 1]
       IN  /\ rx_count' = rx_count + 1
           /\ CASE progress.type = "Error" ->
                     /\ progress_rx' = FALSE
                     /\ progress_info' = NoResult
                     /\ status' = "Error"
                [] progress.type = "Finished" ->
                     /\ UNCHANGED <<progress_rx, progress_info, status>>
                [] progress.type = "Processing" ->
                     /\ progress_info' = progress.info
                     /\ UNCHANGED <<progress_rx, status>>
    /\ UNCHANGED <<source, selected_format, mix>>
    /\ UNCHANGED <<taskVars, fsVars, log, running, find_calls, extract_calls, tasks_spawned>>
    /\ UNCHANGED <<locVars, exVars, mixVars>>

\* A frame while Processing (lines 203-229): try_recv takes one event, if one
\* is queued.
UiPoll ==
    /\ status = "Processing"
    /\ progress_rx
    /\ rx_count < Len(Sent)
    /\ LET progress == Sent[rx_count + 1]
       IN  /\ rx_count' = rx_count + 1
           /\ CASE progress.type = "Error" ->
                     /\ progress_rx' = FALSE
                     /\ progress_info' = NoResult
                     /\ status' = "Error"
                [] progress.type = "Finished" ->
                     /\ progress_rx' = FALSE
                     /\ progress_info' = NoResult
                     /\ status' = "Done"
                [] progress.type = "Processing" ->
                     /\ progress_info' = progress.info
                     /\ UNCHANGED <<progress_rx, status>>
    /\ UNCHANGED <<source, selected_format, mix>>
    /\ UNCHANGED <<taskVars, fsVars, log, running, find_calls, extract_calls, tasks_spawned>>
    /\ UNCHANGED <<locVars, exVars, mixVars>>

(***************************************************************************)
(* setup_resources                                 self_extract.rs:130-169 *)
(***************************************************************************)

AnErr(what) == [kind |-> "Err", err |-> what, code |-> 0]

\* The task's first step (app.rs:156): setup_resources on the blocking pool.
\* A panic inside spawn_blocking comes back as a JoinError, an Err.
TaskSetup ==
    /\ pc = "setup"
    /\ LET src == FindPackSource(exe, debug_assertions, debug_folder, overflow_checks)
           x == ExtractZipContents(src, archive, windows, ioFail)
       IN  /\ find_calls' = find_calls + 1
           /\ locResult' = src
           /\ CASE src.kind = "Panic" ->
                     /\ result' = AnErr("join error")
                     /\ pc' = "send_error"
                     /\ UNCHANGED <<resources, temp_state, temp_files, extract_calls, exResult>>
                [] src.kind = "Err" ->
                     /\ result' = AnErr(src.msg)
                     /\ pc' = "send_error"
                     /\ UNCHANGED <<resources, temp_state, temp_files, extract_calls, exResult>>
                [] src.kind = "DebugFolder" ->
                     /\ IF FFMPEG_EXE \notin dev_files
                        THEN /\ result' = AnErr("ffmpeg.exe not found in debug folder")
                             /\ pc' = "send_error"
                             /\ UNCHANGED resources
                        ELSE /\ resources' = [kind |-> "Resources", temp_dir |-> FALSE,
                                              resource_path |-> "dev"]
                             /\ pc' = "create_dir"
                             /\ UNCHANGED result
                     /\ UNCHANGED <<temp_state, temp_files, extract_calls, exResult>>
                [] src.kind = "EmbeddedZip" ->
                     /\ extract_calls' = extract_calls + 1
                     /\ exResult' = x
                     /\ IF x.kind = "Err"
                        THEN /\ result' = AnErr(x.err)
                             /\ pc' = "send_error"
                             /\ temp_state' = IF x.err \in {"parse", "tempdir"}
                                              THEN "none" ELSE "removed"
                             /\ temp_files' = {}
                             /\ UNCHANGED resources
                        ELSE LET in_temp == { q.name : q \in { w \in x.files : w.base = "temp" } }
                             IN  IF FFMPEG_EXE \notin in_temp
                                 THEN /\ result' = AnErr("ffmpeg.exe not found in extracted resources")
                                      /\ pc' = "send_error"
                                      /\ temp_state' = "removed"
                                      /\ temp_files' = {}
                                      /\ UNCHANGED resources
                                 ELSE /\ resources' = [kind |-> "Resources", temp_dir |-> TRUE,
                                                       resource_path |-> "temp"]
                                      /\ pc' = "create_dir"
                                      /\ temp_state' = "exists"
                                      /\ temp_files' = in_temp
                                      /\ UNCHANGED result
    /\ UNCHANGED <<flac_files, current_index, result_files>>
    /\ UNCHANGED <<dev_files, out_dirs, out_files, manifest>>
    /\ UNCHANGED <<log, rx_count, running, tasks_spawned>>
    /\ UNCHANGED <<uiVars, mixVars>>
    /\ UNCHANGED <<exe, debug_assertions, debug_folder, overflow_checks>>
    /\ UNCHANGED <<windows, archive, ioFail>>

(***************************************************************************)
(* process_files                                         process.rs:73-234 *)
(***************************************************************************)

\* The names directly under resource_path.
ResourceFiles ==
    IF resources.kind # "Resources" THEN {}
    ELSE IF resources.resource_path = "dev" THEN dev_files
    ELSE IF temp_state = "exists" THEN temp_files ELSE {}

ResourceDirExists ==
    /\ resources.kind = "Resources"
    /\ resources.resource_path = "temp" => temp_state = "exists"

Send(ev) == log' = Append(log, [op |-> "send", ev |-> ev])

ProcessingEvent(filename, current, total) ==
    [type |-> "Processing",
     info |-> [filename |-> filename, current |-> current, total |-> total]]

\* An Err of process_files: back in the task, the inner match (app.rs:172).
Fail(e) == result' = e /\ pc' = "send_error"

ioUnchanged ==
    UNCHANGED <<uiVars, locVars, exVars, rx_count, find_calls, extract_calls, tasks_spawned>>

\* A process_files that goes on without creating the output directory.
PfCreateDir_Skips ==
    /\ pc = "create_dir"
    /\ pc' = "check_ffmpeg"
    /\ UNCHANGED <<out_dirs, result>>
    /\ UNCHANGED <<resources, flac_files, current_index, result_files>>
    /\ UNCHANGED <<dev_files, temp_state, temp_files, out_files, manifest>>
    /\ UNCHANGED <<log, running, mixVars>>
    /\ ioUnchanged

\* Lines 81-86: output_path and create_dir_all, which may fail.
PfCreateDir ==
    /\ pc = "create_dir"
    /\ \/ /\ out_dirs' = out_dirs \cup WithParents(OutputPath(selected_format))
          /\ pc' = "check_ffmpeg"
          /\ UNCHANGED result
       \/ /\ Fail(AnErr("create_dir_all"))
          /\ UNCHANGED out_dirs
    /\ UNCHANGED <<resources, flac_files, current_index, result_files>>
    /\ UNCHANGED <<dev_files, temp_state, temp_files, out_files, manifest>>
    /\ UNCHANGED <<log, running, mixVars>>
    /\ ioUnchanged

\* A process_files that does not look for ffmpeg.exe.
PfCheckFfmpeg_Ignores ==
    /\ pc = "check_ffmpeg"
    /\ pc' = "read_dir"
    /\ UNCHANGED <<resources, result, flac_files, current_index, result_files>>
    /\ UNCHANGED <<fsVars, log, running, mixVars>>
    /\ ioUnchanged

\* Lines 88-92: ffmpeg.exe must exist under resource_path.
PfCheckFfmpeg ==
    /\ pc = "check_ffmpeg"
    /\ IF FFMPEG_EXE \in ResourceFiles
       THEN pc' = "read_dir" /\ UNCHANGED result
       ELSE Fail(AnErr("ffmpeg.exe not found in resources"))
    /\ UNCHANGED <<resources, flac_files, current_index, result_files>>
    /\ UNCHANGED <<fsVars, log, running, mixVars>>
    /\ ioUnchanged

\* A branch selection that mixes whenever mix is requested.
PfReadDir_MixWhenRequested ==
    /\ pc = "read_dir"
    /\ \/ /\ ResourceDirExists
          /\ \E order \in EnumerationOrders(
                    { n \in ResourceFiles : PathExtension(n) = <<"flac">> }) :
                /\ flac_files' = order
                /\ pc' = IF mix THEN "mix_send" ELSE "file_loop"
          /\ UNCHANGED result
       \/ /\ Fail(AnErr("read_dir"))
          /\ UNCHANGED flac_files
    /\ current_index' = 0
    /\ result_files' = <<>>
    /\ UNCHANGED <<resources, fsVars, log, running, mixVars>>
    /\ ioUnchanged

\* Lines 95-107: read_dir in the file system's order, the *.flac entries, and
\* the choice of the branch.
PfReadDir ==
    /\ pc = "read_dir"
    /\ \/ /\ ResourceDirExists
          /\ \E order \in EnumerationOrders(
                    { n \in ResourceFiles : PathExtension(n) = <<"flac">> }) :
                /\ flac_files' = order
                /\ pc' = IF mix /\ order # <<>> THEN "mix_send" ELSE "file_loop"
          /\ UNCHANGED result
       \/ /\ Fail(AnErr("read_dir"))
          /\ UNCHANGED flac_files
    /\ current_index' = 0
    /\ result_files' = <<>>
    /\ UNCHANGED <<resources, fsVars, log, running, mixVars>>
    /\ ioUnchanged

\* Lines 109-127: the Processing event of the mix, the empty filter strings.
PfMixSend ==
    /\ pc = "mix_send"
    /\ Send(ProcessingEvent(<<"Mixed output">>, 0, 1))
    /\ pc' = "mix_build"
    /\ nInputs' = Len(flac_files)
    /\ mixpc' = "loop"
    /\ mixi' = 0 /\ cmd_inputs' = <<>> /\ filter' = <<>> /\ mix_filter' = <<>>
    /\ co' = 0 /\ map' = <<>>
    /\ UNCHANGED use_dynaudnorm
    /\ UNCHANGED <<resources, result, flac_files, current_index, result_files>>
    /\ UNCHANGED <<fsVars, running>>
    /\ ioUnchanged

\* A mixed output named without the extension of the format.
MixOutputName_NoExtension == <<"craig">>

MixOutputName == SetExtension(<<"craig">>, Extension(selected_format))

\* Lines 157-165: the encoder arguments, the output craig.<ext>, pushed to
\* result_files, and the spawn of the command, which may fail.
PfMixSpawn ==
    /\ pc = "mix_build"
    /\ mixpc = "built"
    /\ result_files' = Append(result_files, MixOutputName)
    /\ \/ /\ log' = Append(log,
                [op |-> "spawn", k |-> 0,
                 inputs |-> [j \in 1..Len(cmd_inputs) |-> flac_files[cmd_inputs[j] + 1]],
                 af |-> FALSE, filter |-> filter, map |-> map,
                 args |-> FfmpegArgs(selected_format),
                 output |-> [dir |-> OutputPath(selected_format), name |-> MixOutputName]])
          /\ running' = running + 1
          /\ pc' = "mix_wait"
          /\ UNCHANGED result
       \/ /\ log' = Append(log, [op |-> "spawn_failed", k |-> 0])
          /\ Fail([kind |-> "Err", err |-> "spawn", code |-> 0])
          /\ UNCHANGED running
    /\ UNCHANGED <<resources, flac_files, current_index>>
    /\ UNCHANGED <<fsVars, mixVars>>
    /\ ioUnchanged

\* Lines 165-172: the mix command exits.
PfMixExit ==
    /\ pc = "mix_wait"
    /\ \E code \in ExitCodes :
          /\ log' = Append(log, [op |-> "exit", k |-> 0, code |-> code])
          /\ IF code = 0
             THEN /\ out_files' = out_files \cup
                        {[dir |-> OutputPath(selected_format), name |-> MixOutputName]}
                  /\ pc' = "manifest"
                  /\ UNCHANGED result
             ELSE /\ Fail([kind |-> "Err", err |-> "ffmpeg mixing failed with status", code |-> code])
                  /\ UNCHANGED out_files
    /\ running' = running - 1
    /\ UNCHANGED <<resources, flac_files, current_index, result_files>>
    /\ UNCHANGED <<dev_files, temp_state, temp_files, out_dirs, manifest>>
    /\ UNCHANGED mixVars
    /\ ioUnchanged

FileOutputName(k) == SetExtension(flac_files[k + 1], Extension(selected_format))

\* A loop that reports its progress counting from one.
PfFileSend_OneBased ==
    /\ pc = "file_loop"
    /\ IF current_index < Len(flac_files)
       THEN /\ Send(ProcessingEvent(flac_files[current_index + 1], current_index + 1,
                                    Len(flac_files)))
            /\ pc' = "file_spawn"
       ELSE /\ pc' = "manifest"
            /\ UNCHANGED log
    /\ UNCHANGED <<resources, result, flac_files, current_index, result_files>>
    /\ UNCHANGED <<fsVars, running, mixVars>>
    /\ ioUnchanged

\* Lines 176-189: the next input of the per-file loop and its Processing
\* event; past the last input the loop ends.
PfFileSend ==
    /\ pc = "file_loop"
    /\ IF current_index < Len(flac_files)
       THEN /\ Send(ProcessingEvent(flac_files[current_index + 1], current_index,
                                    Len(flac_files)))
            /\ pc' = "file_spawn"
       ELSE /\ pc' = "manifest"
            /\ UNCHANGED log
    /\ UNCHANGED <<resources, result, flac_files, current_index, result_files>>
    /\ UNCHANGED <<fsVars, running, mixVars>>
    /\ ioUnchanged

\* Lines 191-211: the command of one input, its output pushed to
\* result_files, and the spawn, which may fail.
PfFileSpawn ==
    /\ pc = "file_spawn"
    /\ result_files' = Append(result_files, FileOutputName(current_index))
    /\ \/ /\ log' = Append(log,
                [op |-> "spawn", k |-> current_index,
                 inputs |-> <<flac_files[current_index + 1]>>,
                 af |-> use_dynaudnorm, filter |-> <<>>, map |-> <<>>,
                 args |-> FfmpegArgs(selected_format),
                 output |-> [dir |-> OutputPath(selected_format),
                             name |-> FileOutputName(current_index)]])
          /\ running' = running + 1
          /\ pc' = "file_wait"
          /\ UNCHANGED result
       \/ /\ log' = Append(log, [op |-> "spawn_failed", k |-> current_index])
          /\ Fail([kind |-> "Err", err |-> "spawn", code |-> 0])
          /\ UNCHANGED running
    /\ UNCHANGED <<resources, flac_files, current_index>>
    /\ UNCHANGED <<fsVars, mixVars>>
    /\ ioUnchanged

\* A loop that goes on to the next input whatever the exit status.
PfFileExit_KeepsGoing ==
    /\ pc = "file_wait"
    /\ \E code \in ExitCodes :
          /\ log' = Append(log, [op |-> "exit", k |-> current_index, code |-> code])
          /\ out_files' = IF code = 0
                          THEN out_files \cup
                                 {[dir |-> OutputPath(selected_format),
                                   name |-> FileOutputName(current_index)]}
                          ELSE out_files
          /\ current_index' = current_index + 1
          /\ pc' = "file_loop"
          /\ UNCHANGED result
    /\ running' = running - 1
    /\ UNCHANGED <<resources, flac_files, result_files>>
    /\ UNCHANGED <<dev_files, temp_state, temp_files, out_dirs, manifest>>
    /\ UNCHANGED mixVars
    /\ ioUnchanged

\* A loop that removes the files already written when an invocation fails.
PfFileExit_RollsBack ==
    /\ pc = "file_wait"
    /\ \E code \in ExitCodes :
          /\ log' = Append(log, [op |-> "exit", k |-> current_index, code |-> code])
          /\ IF code = 0
             THEN /\ out_files' = out_files \cup
                        {[dir |-> OutputPath(selected_format),
                          name |-> FileOutputName(current_index)]}
                  /\ current_index' = current_index + 1
                  /\ pc' = "file_loop"
                  /\ UNCHANGED result
             ELSE /\ Fail([kind |-> "Err", err |-> "ffmpeg failed with status", code |-> code])
                  /\ out_files' = {}
                  /\ UNCHANGED current_index
    /\ running' = running - 1
    /\ UNCHANGED <<resources, flac_files, result_files>>
    /\ UNCHANGED <<dev_files, temp_state, temp_files, out_dirs, manifest>>
    /\ UNCHANGED mixVars
    /\ ioUnchanged

\* Lines 211-216: the command exits; a non-zero status ends the run.
PfFileExit ==
    /\ pc = "file_wait"
    /\ \E code \in ExitCodes :
          /\ log' = Append(log, [op |-> "exit", k |-> current_index, code |-> code])
          /\ IF code = 0
             THEN /\ out_files' = out_files \cup
                        {[dir |-> OutputPath(selected_format),
                          name |-> FileOutputName(current_index)]}
                  /\ current_index' = current_index + 1
                  /\ pc' = "file_loop"
                  /\ UNCHANGED result
             ELSE /\ Fail([kind |-> "Err", err |-> "ffmpeg failed with status", code |-> code])
                  /\ UNCHANGED <<out_files, current_index>>
    /\ running' = running - 1
    /\ UNCHANGED <<resources, flac_files, result_files>>
    /\ UNCHANGED <<dev_files, temp_state, temp_files, out_dirs, manifest>>
    /\ UNCHANGED mixVars
    /\ ioUnchanged

\* Lines 219-233: the project file craig.aup under root_output_path, one
\* import entry per result file; its write may fail.
PfManifest ==
    /\ pc = "manifest"
    /\ IF IsProjectFormat(selected_format)
       THEN \/ /\ manifest' = [kind |-> "Aup", dir |-> RootOutputPath,
                               imports |-> result_files]
               /\ pc' = "send_finished"
               /\ UNCHANGED result
            \/ /\ Fail(AnErr("write craig.aup"))
               /\ UNCHANGED manifest
       ELSE /\ pc' = "send_finished"
            /\ UNCHANGED <<manifest, result>>
    /\ UNCHANGED <<resources, flac_files, current_index, result_files>>
    /\ UNCHANGED <<dev_files, temp_state, temp_files, out_dirs, out_files>>
    /\ UNCHANGED <<log, running, mixVars>>
    /\ ioUnchanged

(***************************************************************************)
(* The run task after process_files                         app.rs:168-181 *)
(***************************************************************************)

\* Ok(_): send Finished (line 170).
TaskSendFinished ==
    /\ pc = "send_finished"
    /\ Send([type |-> "Finished"])
    /\ pc' = "drop"
    /\ UNCHANGED <<resources, result, flac_files, current_index, result_files>>
    /\ UNCHANGED <<fsVars, running, mixVars>>
    /\ ioUnchanged

\* A task that ends on an error without reporting it.
TaskSendError_Silent ==
    /\ pc = "send_error"
    /\ pc' = IF resources.kind = "Resources" THEN "drop" ELSE "done"
    /\ UNCHANGED <<resources, result, flac_files, current_index, result_files>>
    /\ UNCHANGED <<fsVars, log, running, mixVars>>
    /\ ioUnchanged

\* Err(e): send Error(e), from process_files (line 173) or from
\* setup_resources (line 178), where there are no resources to drop.
TaskSendError ==
    /\ pc = "send_error"
    /\ Send([type |-> "Error", e |-> result])
    /\ pc' = IF resources.kind = "Resources" THEN "drop" ELSE "done"
    /\ UNCHANGED <<resources, result, flac_files, current_index, result_files>>
    /\ UNCHANGED <<fsVars, running, mixVars>>
    /\ ioUnchanged

\* A task that ends without releasing its temporary directory.
TaskDrop_Leaks ==
    /\ pc = "drop"
    /\ pc' = "done"
    /\ UNCHANGED <<temp_state, temp_files>>
    /\ UNCHANGED <<resources, result, flac_files, current_index, result_files>>
    /\ UNCHANGED <<dev_files, out_dirs, out_files, manifest>>
    /\ UNCHANGED <<log, running, mixVars>>
    /\ ioUnchanged

\* The end of the Ok(resources) arm (line 176): resources.temp_dir is dropped,
\* which removes the temporary directory and its contents.
TaskDrop ==
    /\ pc = "drop"
    /\ pc' = "done"
    /\ IF resources.temp_dir
       THEN temp_state' = "removed" /\ temp_files' = {}
       ELSE UNCHANGED <<temp_state, temp_files>>
    /\ UNCHANGED <<resources, result, flac_files, current_index, result_files>>
    /\ UNCHANGED <<dev_files, out_dirs, out_files, manifest>>
    /\ UNCHANGED <<log, running, mixVars>>
    /\ ioUnchanged

\* The mix filter construction inside the run task.
PfMixIter == MixIter /\ UNCHANGED <<locVars, exVars, appVars>>

PfMixFinish == MixFinish /\ UNCHANGED <<locVars, exVars, appVars>>

Init == AppInit

Next ==
    \/ AppDefault
    \/ SelectFormat
    \/ ToggleMix
    \/ ToggleDynaudnorm
    \/ ClickGo
    \/ UiPoll
    \/ TaskSetup
    \/ PfCreateDir
    \/ PfCheckFfmpeg
    \/ PfReadDir
    \/ PfMixSend
    \/ PfMixIter
    \/ PfMixFinish
    \/ PfMixSpawn
    \/ PfMixExit
    \/ PfFileSend
    \/ PfFileSpawn
    \/ PfFileExit
    \/ PfManifest
    \/ TaskSendFinished
    \/ TaskSendError
    \/ TaskDrop

Spec == Init /\ [][Next]_vars

(***************************************************************************)
(* process_files as a public function of the crate (lib.rs:8), called on   *)
(* bounded arguments: any resource folder, format and options.  The caller *)
(* is the run task, which sends the terminal event.                        *)
(***************************************************************************)

\* The arguments of process_files (process.rs:73-80): resource_path is a
\* folder with or without ffmpeg.exe, holding 0..MaxFiles inputs.
InitProcess ==
    /\ LocIdle /\ ExIdle
    /\ nInputs = 0 /\ use_dynaudnorm \in BOOLEAN /\ mixpc = "idle" /\ mixi = 0
    /\ cmd_inputs = <<>> /\ filter = <<>> /\ mix_filter = <<>> /\ co = 0
    /\ map = <<>>
    /\ status = "Processing" /\ source = NoResult /\ progress_rx = TRUE
    /\ progress_info = NoResult
    /\ selected_format \in AudioFormats /\ mix \in BOOLEAN
    /\ pc = "create_dir"
    /\ resources = [kind |-> "Resources", temp_dir |-> FALSE, resource_path |-> "dev"]
    /\ result = NoResult
    /\ flac_files = <<>> /\ current_index = 0 /\ result_files = <<>>
    /\ dev_files \in DevFolders
    /\ temp_state = "none" /\ temp_files = {}
    /\ out_dirs = {} /\ out_files = {} /\ manifest = NoResult
    /\ log = <<>> /\ rx_count = 0 /\ running = 0
    /\ find_calls = 0 /\ extract_calls = 0 /\ tasks_spawned = 1

NextProcess ==
    \/ PfCreateDir
    \/ PfCheckFfmpeg
    \/ PfReadDir
    \/ PfMixSend
    \/ PfMixIter
    \/ PfMixFinish
    \/ PfMixSpawn
    \/ PfMixExit
    \/ PfFileSend
    \/ PfFileSpawn
    \/ PfFileExit
    \/ PfManifest
    \/ TaskSendFinished
    \/ TaskSendError
    \/ TaskDrop

SpecProcess == InitProcess /\ [][NextProcess]_vars

(***************************************************************************)
(* The application under its scheduling: the runtime keeps running the     *)
(* spawned task (app.rs:155), and while progress_rx is Some every frame    *)
(* asks for the next one (request_repaint_after, app.rs:228).  Nothing     *)
(* makes an external process exit: the exits carry no fairness.            *)
(***************************************************************************)

\* The steps the task takes by itself: all but the exits of the processes.
TaskStep ==
    \/ TaskSetup \/ PfCreateDir \/ PfCheckFfmpeg \/ PfReadDir \/ PfMixSend
    \/ PfMixIter \/ PfMixFinish \/ PfMixSpawn \/ PfFileSend \/ PfFileSpawn
    \/ PfManifest \/ TaskSendFinished \/ TaskSendError \/ TaskDrop

FairSpec == Init /\ [][Next]_vars /\ WF_vars(TaskStep) /\ WF_vars(UiPoll)

(***************************************************************************)
(* Properties of find_pack_source, under SpecLocate                        *)
(***************************************************************************)

Located == locResult.kind # "None"

DevFolderInUse == debug_assertions /\ debug_folder

\* The window of the search: the first min(L, MAX_SEARCH_SIZE) bytes.
WindowSize == Min(Len(exe), MAX_SEARCH_SIZE)

\* C7: a signature first occurring at an offset p, 0 <= p <= min(L, window) - 4,
\* makes find_pack_source (no dev folder in use) return EmbeddedZip with
\* zip_start = p and zip_size = L - p.
C7_FirstMatchInWindow ==
    (Located /\ ~DevFolderInUse) =>
        \A p \in 0..(WindowSize - Len(ZIP_MAGIC)) :
            (SigAt(exe, p) /\ \A q \in 0..(p - 1) : ~SigAt(exe, q)) =>
                /\ locResult.kind = "EmbeddedZip"
                /\ locResult.zip_start = p
                /\ locResult.zip_size = Len(exe) - p

\* C8: with no signature inside the window and no dev folder in use, for every
\* length L >= 0, find_pack_source returns the error of its mode, and it reads
\* no byte at an offset >= MAX_SEARCH_SIZE.
C8_NoSignatureModeError ==
    (Located /\ ~DevFolderInUse) =>
        /\ locResult.hi < MAX_SEARCH_SIZE
        /\ (\A p \in 0..(WindowSize - Len(ZIP_MAGIC)) : ~SigAt(exe, p)) =>
              /\ locResult.kind = "Err"
              /\ locResult.msg = NotFoundMsg(debug_assertions)

\* C9 as stated: development mode without the dev folder fails with the
\* message directing the user to create it, whatever the executable holds
\* (taken on the executables of at least 4 bytes, where the arithmetic of the
\* search cannot underflow).
C9_DevModeAlwaysFolderMessage ==
    (Located /\ debug_assertions /\ ~debug_folder /\ Len(exe) >= Len(ZIP_MAGIC)) =>
        (locResult.kind = "Err" /\ locResult.msg = "DebugMsg")

\* The offsets the loop of find_pack_source compares: pos < search_size - 4.
SignatureScanned ==
    \E p \in 0..(WindowSize - Len(ZIP_MAGIC) - 1) : SigAt(exe, p)

\* C9 as amended: development mode without the dev folder goes on to scan the
\* executable; a signature at a scanned offset gives EmbeddedZip, and the
\* message directing the user to create the folder is given exactly when the
\* scan runs to its end without a match; the release message is never given.
C9_DevModeFallsThroughToScan ==
    (Located /\ debug_assertions /\ ~debug_folder) =>
        /\ locResult.kind \in {"EmbeddedZip", "Err", "Panic"}
        /\ locResult.msg # "ReleaseMsg"
        /\ SignatureScanned <=> locResult.kind = "EmbeddedZip"
        /\ (locResult.kind = "Err" /\ locResult.msg = "DebugMsg")
              <=> (~SignatureScanned /\ WindowSize >= Len(ZIP_MAGIC))

\* Development mode, no dev folder, and the scan finds the bundled archive.
C9_Witness ==
    /\ Located /\ debug_assertions /\ ~debug_folder
    /\ locResult.kind = "EmbeddedZip" /\ locResult.zip_start > 0

(***************************************************************************)
(* Properties of the mix filter graph, under SpecFilter                    *)
(***************************************************************************)

Built == mixpc = "built"

\* The amix stages of the built graph, in order.
AmixStages == SelectSeq(filter, LAMBDA s : s.kind = "amix")

InputStages == SelectSeq(filter, LAMBDA s : s.kind = "input")

InSeq(x, sq) == \E k \in 1..Len(sq) : sq[k] = x

\* C4: 32 inputs give exactly one amix stage, amix=32; 33 inputs give exactly
\* two, the second taking the first one's output as one of its inputs.
C4_StagesAt32And33 ==
    Built =>
        /\ nInputs = 32 =>
              /\ Len(AmixStages) = 1
              /\ AmixStages[1].count = 32
        /\ nInputs = 33 =>
              /\ Len(AmixStages) = 2
              /\ InSeq(AmixStages[1].out, AmixStages[2].ins)

\* C5: for every N >= 1, every amix stage lists at most 32 inputs and declares
\* as many as it lists, every stage after the first reads the output of the
\* stage before it, every input 0..N-1 goes through one per-input filter, and
\* the last stage produces [aud], the stream mapped to the output.
C5_ChunkedMixInvariant ==
    Built =>
        /\ \A k \in 1..Len(AmixStages) :
              /\ Len(AmixStages[k].ins) <= 32
              /\ AmixStages[k].count = Len(AmixStages[k].ins)
              /\ k > 1 => InSeq(AmixStages[k - 1].out, AmixStages[k].ins)
        /\ cmd_inputs = [k \in 1..nInputs |-> k - 1]
        /\ Len(InputStages) = nInputs
        /\ \A k \in 1..nInputs : InputStages[k].src = k - 1
        /\ \A k \in 1..Len(InputStages) :
              \E j \in 1..Len(AmixStages) : InSeq(InputStages[k].out, AmixStages[j].ins)
        /\ Len(filter) >= 1
        /\ filter[Len(filter)].kind = "amix"
        /\ filter[Len(filter)].out = AudOut
        /\ map = AudOut
        /\ \A k \in 1..(Len(filter) - 1) : filter[k].out # AudOut

\* A graph of more inputs than two chunks hold: three chained amix stages,
\* the middle one full.
C5_Witness ==
    /\ Built /\ nInputs > 64 /\ Len(AmixStages) = 3
    /\ Len(AmixStages[2].ins) = 32

(***************************************************************************)
(* Properties of extract_zip_contents, under SpecExtract                   *)
(***************************************************************************)

Extracted == exResult.kind # "None"

\* The entries the claim has extracted: the name denotes no directory and
\* holds no path separator.
FlatEntries ==
    { archive[k] : k \in { j \in 1..Len(archive) :
                             ~Contains(archive[j], "/") /\ ~Contains(archive[j], "\\") } }

\* C10: the files extract_zip_contents creates are exactly the flat entries of
\* the archive, each a direct child of the temporary directory; nothing is
\* written outside it; directory and nested entries are skipped without error.
C10_OnlyFlatEntriesInsideTemp ==
    Extracted =>
        /\ \A q \in exResult.files : q.base = "temp"
        /\ exResult.kind = "Ok" =>
              { q.name : q \in exResult.files } = FlatEntries
        /\ (exResult.kind = "Err" /\ exResult.at > 0 /\ exResult.err # "by_index") =>
              ~Skipped(archive[exResult.at])

(***************************************************************************)
(* Properties of the run, under Spec                                       *)
(***************************************************************************)

Terminal(ev) == ev.type \in {"Finished", "Error"}

TerminalsSent == { k \in 1..Len(Sent) : Terminal(Sent[k]) }

\* The task has sent its terminal event and is at, or past, its last step.
TaskEnding == pc \in {"drop", "done"}

\* The steps of the run task.
TaskNext ==
    \/ TaskSetup \/ PfCreateDir \/ PfCheckFfmpeg \/ PfReadDir \/ PfMixSend
    \/ PfMixIter \/ PfMixFinish \/ PfMixSpawn \/ PfMixExit \/ PfFileSend
    \/ PfFileSpawn \/ PfFileExit \/ PfManifest \/ TaskSendFinished
    \/ TaskSendError \/ TaskDrop

\* The run took the mix branch (process.rs:107).
MixRun == mix /\ flac_files # <<>>

\* C1: a run sends exactly one terminal event, after all its Processing
\* events, on every path: none before the task's last steps, exactly one from
\* then on, it is the last event sent, and a task that has not ended can
\* always take its next step.
C1_ExactlyOneTerminalLast ==
    /\ TaskEnding => Cardinality(TerminalsSent) = 1
    /\ ~TaskEnding => TerminalsSent = {}
    /\ \A k \in TerminalsSent : k = Len(Sent) /\ log[Len(log)].op = "send"
    /\ (tasks_spawned > 0 /\ pc # "done") => ENABLED TaskNext

\* A run that sent three Processing events and then Finished.
C1_Witness ==
    /\ pc = "done" /\ Len(Sent) = 4
    /\ Sent[4].type = "Finished"
    /\ \A k \in 1..3 : Sent[k].type = "Processing"

IsFailure(e) ==
    \/ e.op = "spawn_failed"
    \/ (e.op = "exit" /\ e.code # 0)

\* Does the Error event ev carry the failure e of an invocation.
CarriesFailure(ev, e) ==
    /\ ev.type = "Error"
    /\ IF e.op = "exit"
       THEN ev.e.err = "ffmpeg failed with status" /\ ev.e.code = e.code
       ELSE ev.e.err = "spawn"

\* C2: in a per-file run, once invocation k exits non-zero or cannot be
\* spawned, no invocation after k is started, no Processing event of an index
\* above k is sent, and the one terminal event is Error with that exit status
\* or spawn error.
C2_FailFast ==
    ~MixRun =>
        \A p \in 1..Len(log) :
            IsFailure(log[p]) =>
                /\ Len(log) <= p + 1
                /\ \A q \in 1..Len(log) :
                      /\ log[q].op \in {"spawn", "spawn_failed"} => log[q].k <= log[p].k
                      /\ (log[q].op = "send" /\ log[q].ev.type = "Processing") =>
                            log[q].ev.info.current <= log[p].k
                      /\ q > p => (log[q].op = "send" /\ CarriesFailure(log[q].ev, log[p]))
                /\ TaskEnding => Len(log) = p + 1
                /\ pc \in {"send_error", "drop", "done"}

\* The second of three invocations exited non-zero and the run has ended.
C2_Witness ==
    /\ pc = "done" /\ ~MixRun /\ Len(flac_files) = 3
    /\ \E p \in 1..Len(log) : log[p].op = "exit" /\ log[p].k = 1 /\ log[p].code = 2

\* C3: a per-file run over N inputs whose invocations all succeed sends
\* exactly N Processing events, of the indices 0..N-1 in order and of total N,
\* event i after invocation i-1 has exited and before invocation i is spawned,
\* and then exactly one terminal event.
C3_ProcessingPerInput ==
    (TaskEnding /\ ~MixRun /\ (result = NoResult \/ result.err = "write craig.aup")) =>
        LET N == Len(flac_files)
        IN  /\ Len(log) = 3 * N + 1
            /\ \A i \in 0..(N - 1) :
                  /\ log[3 * i + 1] =
                        [op |-> "send",
                         ev |-> ProcessingEvent(flac_files[i + 1], i, N)]
                  /\ log[3 * i + 2].op = "spawn" /\ log[3 * i + 2].k = i
                  /\ log[3 * i + 2].inputs = <<flac_files[i + 1]>>
                  /\ log[3 * i + 3] = [op |-> "exit", k |-> i, code |-> 0]
            /\ log[3 * N + 1].op = "send" /\ Terminal(log[3 * N + 1].ev)

\* Three inputs converted one by one, and the run has ended with Finished.
C3_Witness ==
    /\ pc = "done" /\ ~mix /\ Len(flac_files) = 3 /\ result = NoResult
    /\ Cardinality(out_files) = 3

\* The outputs of the invocations that exited with status 0, in the order
\* they were produced.
ProducedNames ==
    LET made == SelectSeq(log, LAMBDA e :
                    /\ e.op = "spawn"
                    /\ \E q \in 1..Len(log) :
                          log[q].op = "exit" /\ log[q].k = e.k /\ log[q].code = 0)
    IN  [j \in 1..Len(made) |-> made[j].output.name]

DataFolder == <<"out", "craig_data">>

ManifestOfProduced ==
    /\ manifest.kind = "Aup"
    /\ manifest.dir = <<"out">>
    /\ manifest.imports = ProducedNames
    /\ \A f \in out_files : f.dir = DataFolder
    /\ Cardinality(out_files) = Len(ProducedNames)

\* C6 as stated: whenever a run with the project format has ended, the
\* manifest exists under the output root with one import entry per produced
\* file, in production order, and every produced file lies in craig_data
\* (taken on the runs that produced at least one file).
C6_ProjectAlwaysHasManifest ==
    (pc = "done" /\ selected_format = "Audacity" /\ out_files # {}) =>
        ManifestOfProduced

\* C6 as amended: whenever a run with the project format has ended with
\* Finished, the manifest exists under the output root with one import entry
\* per produced file, in production order; and in every run with the project
\* format every produced file lies in craig_data.
C6_FinishedProjectHasManifest ==
    (tasks_spawned > 0 /\ selected_format = "Audacity") =>
        /\ \A f \in out_files : f.dir = DataFolder
        /\ (TaskEnding /\ Sent[Len(Sent)].type = "Finished") => ManifestOfProduced

\* A project run of three inputs that ended with Finished.
C6_Witness ==
    /\ pc = "done" /\ selected_format = "Audacity" /\ ~mix
    /\ Sent[Len(Sent)].type = "Finished"
    /\ manifest.kind = "Aup" /\ Len(manifest.imports) = 3

(***************************************************************************)
(* Properties of the run's resources and processes, under Spec             *)
(***************************************************************************)

\* The run's resources were extracted from the embedded archive.
EmbeddedRun == resources.kind = "Resources" /\ resources.temp_dir

\* The run's resources are the dev folder.
DevRun == resources.kind = "Resources" /\ ~resources.temp_dir

\* The positions of the run task inside process_files and up to the terminal
\* send, that is, before the end of the Ok(resources) arm.
BeforeDrop ==
    {"create_dir", "check_ffmpeg", "read_dir", "mix_send", "mix_build", "mix_wait",
     "file_loop", "file_spawn", "file_wait", "manifest", "send_finished", "send_error"}

\* C11: in a run on extracted resources the temporary directory exists, with
\* ffmpeg.exe and the inputs in it, at the enumeration of the inputs and while
\* any external process is started or running, up to the terminal send on the
\* success and the failure paths; once the task has ended the directory and
\* its contents are gone; in a dev-folder run no step removes anything from
\* the dev folder and no temporary directory is involved.
C11_TempDirOutlivesInvocations ==
    /\ [](EmbeddedRun =>
            /\ pc \in BeforeDrop \cup {"drop"} =>
                  /\ temp_state = "exists"
                  /\ FFMPEG_EXE \in temp_files
                  /\ \A k \in 1..Len(flac_files) : flac_files[k] \in temp_files
            /\ running > 0 => temp_state = "exists"
            /\ pc = "done" => (temp_state = "removed" /\ temp_files = {}))
    /\ [](DevRun => temp_state = "none")
    /\ [][dev_files' = dev_files]_vars

\* An extracted run whose second invocation failed has ended, and the
\* temporary directory is gone.
C11_Witness ==
    /\ EmbeddedRun /\ pc = "done" /\ temp_state = "removed"
    /\ \E p \in 1..Len(log) : log[p].op = "exit" /\ log[p].k = 1 /\ log[p].code # 0

\* The task is waiting for an external process it has spawned.
Awaiting == pc \in {"mix_wait", "file_wait"}

\* C12: at most one external process runs at any time, and one runs exactly
\* while the task awaits it; in the task's log every spawn is followed at once
\* by the exit of the same invocation, so the next spawn comes after it; at
\* most one run task exists, and Go cannot be taken once a run has started.
C12_OneProcessAtATime ==
    /\ running \in {0, 1}
    /\ running = 1 <=> Awaiting
    /\ \A p \in 1..Len(log) :
          log[p].op = "spawn" =>
              /\ p = Len(log) => Awaiting
              /\ p < Len(log) => (log[p + 1].op = "exit" /\ log[p + 1].k = log[p].k)
    /\ Awaiting => log[Len(log)].op = "spawn"
    /\ tasks_spawned \in {0, 1}
    /\ tasks_spawned = 1 => (status # "Ready" /\ ~ENABLED ClickGo)

\* The third invocation of a run is running while the UI has already taken
\* events of the run.
C12_Witness ==
    /\ running = 1 /\ pc = "file_wait" /\ current_index = 2
    /\ rx_count >= 2 /\ status = "Processing"

\* The directory the outputs of the run go to: the output root, or its
\* craig_data subfolder with the project format.
EffectiveOutputDir ==
    IF selected_format = "Audacity" THEN DataFolder ELSE <<"out">>

\* The invocations the task has tried to start.
Invocations == { p \in 1..Len(log) : log[p].op \in {"spawn", "spawn_failed"} }

\* C13: whenever an invocation has been started, the effective output
\* directory (and the output root above it) exists and is the directory the
\* invocation writes to; and a run whose create_dir_all failed has started no
\* invocation, has sent no Processing event, and ends with Error.
C13_OutputDirBeforeInvocation ==
    /\ Invocations # {} =>
          /\ EffectiveOutputDir \in out_dirs
          /\ <<"out">> \in out_dirs
          /\ \A p \in Invocations :
                log[p].op = "spawn" => log[p].output.dir = EffectiveOutputDir
    /\ (pc \notin {"none", "setup", "create_dir"} /\ EffectiveOutputDir \notin out_dirs) =>
          /\ resources.kind = "Resources" => result = AnErr("create_dir_all")
          /\ Invocations = {}
          /\ pc \in {"send_error", "drop", "done"}
          /\ \A k \in 1..Len(Sent) : Sent[k].type = "Error"
          /\ TaskEnding => Len(Sent) = 1

\* An invocation of a project run is running, its craig_data folder exists.
C13_Witness ==
    /\ pc = "file_wait" /\ selected_format = "Audacity"
    /\ DataFolder \in out_dirs

(***************************************************************************)
(* Properties of the validation of ffmpeg.exe, under SpecProcess and Spec  *)
(***************************************************************************)

\* The run failed because ffmpeg.exe was missing: at the validation of
\* setup_resources, or at the one of process_files.
MissingAtSetup ==
    /\ result.kind = "Err"
    /\ result.err \in {"ffmpeg.exe not found in debug folder",
                       "ffmpeg.exe not found in extracted resources"}

MissingAtProcess ==
    /\ result.kind = "Err" /\ result.err = "ffmpeg.exe not found in resources"

\* The run is past both validations.
Validated == pc \in {"read_dir", "mix_send", "mix_build", "mix_wait", "file_loop",
                     "file_spawn", "file_wait", "manifest", "send_finished"}

\* A single Error event, no Processing event, no invocation, no manifest.
OnlyAnError ==
    /\ \A k \in 1..Len(Sent) : Sent[k].type = "Error"
    /\ Len(Sent) <= 1
    /\ TaskEnding => Len(Sent) = 1
    /\ Invocations = {}
    /\ out_files = {}
    /\ manifest = NoResult

C15_OriginComputedOnce ==
    /\ status = "Starting" => find_calls = 0
    /\ status # "Starting" => find_calls = 1
    /\ resources.kind = "Resources" => source.kind \in {"DebugFolder", "EmbeddedZip"}
    /\ extract_calls \in {0, 1}

(***************************************************************************)
(* Properties of the mix run and of the empty run, under Spec              *)
(***************************************************************************)

Spawns == { p \in 1..Len(log) : log[p].op = "spawn" }

ProcessingSends ==
    { p \in 1..Len(log) : log[p].op = "send" /\ log[p].ev.type = "Processing" }

\* The name craig.<ext> of the mixed file.
CraigFile == <<"craig", ".", Extension(selected_format)>>

\* C16: a mix run over N >= 1 inputs sends the one Processing event ("Mixed
\* output", 0, 1) first, then starts at most one invocation, which takes all
\* N inputs in enumeration order and writes craig.<ext> in the effective
\* output directory; a run that ended with Finished has made exactly one
\* invocation, and its result list, and the manifest of a project run, hold
\* the one entry craig.<ext>.
C16_MixIsOneInvocation ==
    (MixRun /\ pc \notin {"read_dir", "mix_send"}) =>
        /\ ProcessingSends = {1}
        /\ log[1].ev = ProcessingEvent(<<"Mixed output">>, 0, 1)
        /\ Cardinality(Invocations) <= 1
        /\ \A p \in Invocations : p = 2 /\ log[p].k = 0
        /\ \A p \in Spawns :
              /\ log[p].inputs = flac_files
              /\ log[p].map = AudOut
              /\ log[p].output = [dir |-> EffectiveOutputDir, name |-> CraigFile]
        /\ Invocations # {} => result_files = <<CraigFile>>
        /\ manifest.kind = "Aup" => manifest.imports = <<CraigFile>>
        /\ (TaskEnding /\ Sent[Len(Sent)].type = "Finished") =>
              /\ Cardinality(Spawns) = 1
              /\ out_files = {[dir |-> EffectiveOutputDir, name |-> CraigFile]}
              /\ selected_format = "Audacity" => manifest.kind = "Aup"

\* A project mix of three inputs, enumerated in descending order, has ended
\* with Finished.
C16_Witness ==
    /\ pc = "done" /\ mix /\ Len(flac_files) = 3
    /\ flac_files[1] = <<"c", ".", "flac">>
    /\ selected_format = "Audacity" /\ manifest.kind = "Aup"
    /\ Sent[Len(Sent)].type = "Finished"

\* process_files has enumerated an empty input set and has not failed, or has
\* failed only at the write of the manifest.
EmptyRun ==
    /\ flac_files = <<>>
    /\ resources.kind = "Resources"
    /\ \/ pc \in {"file_loop", "manifest", "send_finished"}
       \/ /\ pc \in {"send_error", "drop", "done"}
          /\ result \in {NoResult, AnErr("write craig.aup")}

\* C17: with an empty input set, mix requested or not, the mix branch is not
\* entered: no invocation is started, no Processing event is sent, no output
\* file is written; the run ends with Finished as its only event (an Error is
\* only possible for the project format, when the write of the manifest
\* itself fails), and a project run that ended with Finished has written a
\* manifest with no import entry, any other format none.
C17_EmptyInputSet ==
    /\ pc \in {"mix_send", "mix_build", "mix_wait"} => flac_files # <<>>
    /\ EmptyRun =>
          /\ mixpc = "idle"
          /\ Invocations = {}
          /\ ProcessingSends = {}
          /\ out_files = {}
          /\ result_files = <<>>
          /\ result # NoResult => selected_format = "Audacity"
          /\ (TaskEnding /\ result = NoResult) =>
                /\ Sent = <<[type |-> "Finished"]>>
                /\ IF selected_format = "Audacity"
                   THEN manifest = [kind |-> "Aup", dir |-> <<"out">>, imports |-> <<>>]
                   ELSE manifest = NoResult

\* A project run with mix requested over a folder without inputs has ended
\* with Finished.
C17_Witness ==
    /\ pc = "done" /\ EmptyRun /\ mix /\ selected_format = "Audacity"
    /\ result = NoResult /\ manifest.kind = "Aup"

(***************************************************************************)
(* Properties of the failure path, under Spec                              *)
(***************************************************************************)

\* The output of input i of a per-file run.
OutputOf(i) ==
    [dir |-> EffectiveOutputDir,
     name |-> SetExtension(flac_files[i + 1], Extension(selected_format))]

\* C18: no step of the program removes an output file or an output directory
\* or changes a written manifest; and in a per-file run whose invocation k
\* has failed, at the failure, at the Error send and after the task's end,
\* the files on disk are exactly the outputs of the invocations 0..k-1, all
\* different, in the effective output directory, which still exists.
C18_FailureLeavesOutputs ==
    /\ [][/\ out_files \subseteq out_files'
          /\ out_dirs \subseteq out_dirs'
          /\ manifest # NoResult => manifest' = manifest]_vars
    /\ [](~MixRun =>
            \A p \in 1..Len(log) :
                IsFailure(log[p]) =>
                    /\ out_files = { OutputOf(i) : i \in 0..(log[p].k - 1) }
                    /\ Cardinality(out_files) = log[p].k
                    /\ EffectiveOutputDir \in out_dirs
                    /\ manifest = NoResult)

\* The third invocation of a run failed, the task has ended, and the two
\* files written before are on disk.
C18_Witness ==
    /\ pc = "done" /\ ~MixRun /\ Cardinality(out_files) = 2
    /\ \E p \in 1..Len(log) : log[p].op = "exit" /\ log[p].k = 2 /\ log[p].code # 0

(***************************************************************************)
(* Properties of the labels of the mix filter graph, under SpecFilter      *)
(***************************************************************************)

\* C19: in the built graph no two stages produce the same label, and no amix
\* stage produces a label that is among its own inputs.
C19_LabelsDefinedOnce ==
    Built =>
        /\ \A j, k \in 1..Len(filter) : j # k => filter[j].out # filter[k].out
        /\ \A k \in 1..Len(AmixStages) : ~InSeq(AmixStages[k].out, AmixStages[k].ins)

(***************************************************************************)
(* Properties of the end of the run, under FairSpec                        *)
(***************************************************************************)

\* The event that made the UI leave Processing.
LastReceived == Sent[rx_count]

\* C20: once the status is Processing it eventually becomes Done or Error,
\* unless an external process never exits and the task awaits it forever;
\* the status is Done only after the task sent Finished, every invocation
\* having exited with status 0 and the manifest of a project run being
\* written; after a run was started it is Error only after the task sent
\* Error; and Done and Error are kept.
C20_ProcessingEndsUnlessHung ==
    /\ (status = "Processing") ~> (status \in {"Done", "Error"} \/ []Awaiting)
    /\ [](status = "Done" =>
            /\ rx_count = Len(Sent) /\ LastReceived.type = "Finished"
            /\ pc \in {"drop", "done"}
            /\ \A p \in 1..Len(log) : ~IsFailure(log[p])
            /\ Cardinality(Spawns) = Cardinality(out_files)
            /\ selected_format = "Audacity" => manifest.kind = "Aup")
    /\ []((status = "Error" /\ tasks_spawned > 0) =>
            /\ rx_count = Len(Sent) /\ LastReceived.type = "Error"
            /\ LastReceived.e = result)
    /\ [][(status \in {"Done", "Error"}) => (status' = status)]_vars

\* The UI shows Done after a run of three invocations.
C20_Witness ==
    /\ status = "Done" /\ Cardinality(Spawns) = 3 /\ rx_count = 4

(***************************************************************************)
(* Properties of the UI status, under Spec                                 *)
(***************************************************************************)

\* The moves of the status: out of construction (a panic of find_pack_source
\* ends the process, there is no application then), and between the values
\* of AppStatus.
StatusMoves ==
    { <<"Starting", "Ready">>, <<"Starting", "Error">>, <<"Starting", "Crashed">>,
      <<"Ready", "Processing">>, <<"Processing", "Done">>, <<"Processing", "Error">> }

\* Locating failed at startup: the application exists and holds no origin.
LocatingFailed == status \notin {"Starting", "Crashed"} /\ source = NoResult

\* C21: the status only moves Ready -> Processing -> Done or Error, or is
\* Error from construction when locating failed; Done and Error are never
\* left; Processing is entered only from Ready, by the step that spawns the
\* run task, and a task is spawned by no other step, so at most one task is
\* ever spawned, and none when locating failed at startup; the progress
\* receiver is present exactly while the status is Processing.
C21_StatusMachine ==
    /\ [][/\ status' # status => <<status, status'>> \in StatusMoves
          /\ (status # "Processing" /\ status' = "Processing") <=>
                (tasks_spawned' = tasks_spawned + 1)
          /\ tasks_spawned' # tasks_spawned =>
                (status = "Ready" /\ pc = "none" /\ pc' = "setup")]_vars
    /\ [](tasks_spawned \in {0, 1})
    /\ [](tasks_spawned = 0 <=> pc = "none")
    /\ [](LocatingFailed => (status = "Error" /\ tasks_spawned = 0 /\ ~ENABLED ClickGo))
    /\ [](status = "Ready" => source.kind \in {"DebugFolder", "EmbeddedZip"})
    /\ [](progress_rx <=> status = "Processing")

\* The status is Error after a run, and the receiver is gone.
C21_Witness ==
    /\ status = "Error" /\ tasks_spawned = 1 /\ ~progress_rx
    /\ source.kind = "EmbeddedZip" /\ pc = "done"

(***************************************************************************)
(* Properties of the failure paths of setup_resources, under Spec (and of  *)
(* extract_zip_contents alone, under SpecExtract)                          *)
(***************************************************************************)

\* The run task got an Err from setup_resources.
SetupFailed ==
    tasks_spawned = 1 /\ pc \in {"send_error", "done"} /\ resources = NoResult

\* setup_resources had created the temporary directory before it failed.
FailedAfterCreation ==
    /\ locResult.kind = "EmbeddedZip"
    /\ exResult.kind # "None"
    /\ exResult.kind = "Err" => exResult.err \notin {"parse", "tempdir"}

\* C22: an error return of extract_zip_contents leaves no temporary directory
\* and no file under it; when setup_resources has failed, on a failing entry
\* or on ffmpeg.exe missing from the extracted files, the temporary directory
\* it had created is removed with its contents by the time the task holds the
\* error; and the directory exists only while a run holds its resources.
C22_SetupFailureRemovesTempDir ==
    /\ exResult.kind = "Err" =>
          /\ ~exResult.temp_dir
          /\ \A q \in exResult.files : q.base # "temp"
    /\ SetupFailed =>
          /\ temp_state \in {"none", "removed"}
          /\ temp_files = {}
          /\ temp_state = "removed" <=> FailedAfterCreation
    /\ temp_state = "exists" => EmbeddedRun

\* setup_resources extracted three inputs, found no ffmpeg.exe among them and
\* failed; the temporary directory is gone.
C22_Witness ==
    /\ SetupFailed /\ temp_state = "removed" /\ Len(archive) = 3
    /\ exResult.kind = "Ok" /\ Cardinality(exResult.files) = 3
    /\ result = AnErr("ffmpeg.exe not found in extracted resources")

=============================================================================
